---- MODULE Spec2Model ----
(***************************************************************************)
(* StudyWell FCM notification server: recurring occurrence generation,     *)
(* the scheduled_notifications store, the preference watch loop, the       *)
(* per-minute dispatch poll and the daily cleanup.                         *)
(*                                                                         *)
(* Time is counted in whole seconds from an origin that is a Monday        *)
(* 00:00:00 UTC.  A Date / Timestamp is the number of seconds since then.  *)
(***************************************************************************)
EXTENDS Integers, Sequences, FiniteSets, TLC

VARIABLES
    firebaseInitialized, \* src/server/index.js:12
    process,             \* how far the start-up has come, and the credentials it found
    replies,             \* history: the answers given to HTTP requests
    pending,             \* the device's pending local notifications: id -> instant
    lastCall,            \* history: the device's latest scheduling call
    serverTz,            \* hours east of UTC of the process's local zone (Date.getDay, setHours)
    clock,               \* wall clock, seconds
    resolved,            \* last resolver call: its inputs and both drafts' results
    horizon,             \* number of weeks scheduleStudyReminders generates
    cronFired,           \* the cron callbacks of the current instant have started
    prefs,               \* collection notification_preferences: userId -> document
    store,               \* collection scheduled_notifications: document id -> document
    handlers,            \* the watch loop's change callbacks, in delivery order
    polls,               \* runs of the every-minute cron callback still in progress
    sweep,               \* the daily cleanup callback
    lastPoll,            \* history: what the latest poll run read and selected
    attempts,            \* history: every send a poll run made, with its outcome
    history              \* history: the store as earlier regenerations found and left it

machineVars == <<horizon, cronFired, prefs, store, handlers, polls, sweep, lastPoll, attempts>>
vars == <<firebaseInitialized, process, replies, pending, lastCall, serverTz, clock, resolved, history, machineVars>>

\* ------------------------------------------------------------------ time

Minute == 60
Hour == 60 * Minute
Day == 24 * Hour
Week == 7 * Day

\* Date.prototype.getUTCDay / getDay: 0 = Sunday .. 6 = Saturday.
GetUTCDay(t) == ((t \div Day) + 1) % 7
GetDay(t) == GetUTCDay(t + serverTz * Hour)

\* 00:00 of t's calendar day, in UTC and in the process's local zone.
UtcMidnight(t) == (t \div Day) * Day
LocalMidnight(t) == UtcMidnight(t + serverTz * Hour) - serverTz * Hour

\* d.setUTCHours(h, m, 0, 0) and d.setHours(h, m, 0, 0)
SetUTCHours(t, h, m) == UtcMidnight(t) + h * Hour + m * Minute
SetHours(t, h, m) == LocalMidnight(t) + h * Hour + m * Minute

\* d.setUTCDate(d.getUTCDate() + n) and d.setDate(d.getDate() + n): the same
\* time of day n calendar days on (fixed-offset zones: a day is 24 hours).
AddDays(t, n) == t + n * Day

\* ------------------------------------------------------------ resolver

\* src/server/index.js: the owner's zone is taken to be UTC+8.
OwnerOffsetHours == 8

\* the owner's hour taken as a UTC hour, without conversion
UtcHourUnconverted(hour) == hour

UtcHourOf(hour) == (hour - OwnerOffsetHours + 24) % 24

\* getNextScheduledDate accepting today's target when it equals now (>= for >)
getNextScheduledDateAcceptsNow(now, dayOfWeek, hour, minute, weekOffset) ==
    LET currentDayOfWeek == IF GetDay(now) = 0 THEN 7 ELSE GetDay(now)
        targetDate == SetUTCHours(now, UtcHourOf(hour), minute)
        daysUntil0 == (dayOfWeek - currentDayOfWeek + 7) % 7
        daysUntilTarget == IF daysUntil0 = 0 THEN 7 ELSE daysUntil0
    IN  IF currentDayOfWeek = dayOfWeek
        THEN IF targetDate >= now
             THEN AddDays(targetDate, weekOffset * 7)
             ELSE AddDays(targetDate, 7 + weekOffset * 7)
        ELSE AddDays(targetDate, daysUntilTarget + weekOffset * 7)

\* getNextScheduledDate keeping today's target on the requested weekday
\* whether or not its time has passed
getNextScheduledDateKeepsToday(now, dayOfWeek, hour, minute, weekOffset) ==
    LET currentDayOfWeek == IF GetDay(now) = 0 THEN 7 ELSE GetDay(now)
        targetDate == SetUTCHours(now, UtcHourOf(hour), minute)
        daysUntil0 == (dayOfWeek - currentDayOfWeek + 7) % 7
        daysUntilTarget == IF daysUntil0 = 0 THEN 7 ELSE daysUntil0
    IN  IF currentDayOfWeek = dayOfWeek
        THEN AddDays(targetDate, weekOffset * 7)
        ELSE AddDays(targetDate, daysUntilTarget + weekOffset * 7)

\* src/server/index.js getNextScheduledDate
getNextScheduledDate(now, dayOfWeek, hour, minute, weekOffset) ==
    LET currentDayOfWeek == IF GetDay(now) = 0 THEN 7 ELSE GetDay(now)
        utcHour == UtcHourOf(hour)
        targetDate == SetUTCHours(now, utcHour, minute)
        daysUntil0 == (dayOfWeek - currentDayOfWeek + 7) % 7
        daysUntilTarget == IF daysUntil0 = 0 THEN 7 ELSE daysUntil0
    IN  IF currentDayOfWeek = dayOfWeek
        THEN IF targetDate > now
             THEN AddDays(targetDate, weekOffset * 7)
             ELSE AddDays(targetDate, 7 + weekOffset * 7)
        ELSE AddDays(targetDate, daysUntilTarget + weekOffset * 7)

\* src/index.js getNextScheduledDate (the earlier draft: local time, no offset)
getNextScheduledDateDraft(now, dayOfWeek, hour, minute, weekOffset) ==
    LET currentDayOfWeek == IF GetDay(now) = 0 THEN 7 ELSE GetDay(now)
        targetTimeToday == SetHours(now, hour, minute)
        daysUntil0 == (dayOfWeek - currentDayOfWeek + 7) % 7
        daysUntilTarget == IF daysUntil0 = 0 THEN 7 ELSE daysUntil0
    IN  IF currentDayOfWeek = dayOfWeek
        THEN IF targetTimeToday > now
             THEN AddDays(targetTimeToday, weekOffset * 7)
             ELSE SetHours(AddDays(now, 7 + weekOffset * 7), hour, minute)
        ELSE SetHours(AddDays(now, daysUntilTarget + weekOffset * 7), hour, minute)

\* ------------------------------------------------ the device's resolver

\* src/lib/firebase_notification_service.dart works in the device's local
\* zone, which is the owner's.
DeviceOffsetHours == OwnerOffsetHours

\* DateTime.weekday of the local date: 1 = Monday .. 7 = Sunday
DeviceWeekday(t) ==
    LET day == GetUTCDay(t + DeviceOffsetHours * Hour)
    IN  IF day = 0 THEN 7 ELSE day

\* DateTime(t.year, t.month, t.day, hour, minute): that time of t's local date
DeviceDateTime(t, hour, minute) ==
    UtcMidnight(t + DeviceOffsetHours * Hour) - DeviceOffsetHours * Hour
        + hour * Hour + minute * Minute

\* _getNextScheduledDate (Dart's % of a positive divisor is never negative)
DeviceNextScheduledDate(now, dayOfWeek, hour, minute) ==
    LET currentDayOfWeek == DeviceWeekday(now)
        targetTimeToday == DeviceDateTime(now, hour, minute)
        daysUntil0 == (dayOfWeek - currentDayOfWeek) % 7
        daysUntilTarget == IF daysUntil0 = 0 THEN 7 ELSE daysUntil0
    IN  IF currentDayOfWeek = dayOfWeek
        THEN IF targetTimeToday > now
             THEN targetTimeToday
             ELSE DeviceDateTime(now + 7 * Day, hour, minute)
        ELSE DeviceDateTime(now + daysUntilTarget * Day, hour, minute)

\* scheduleStudyReminder: scheduledDate.add(Duration(days: week * 7))
DeviceWeekDate(now, dayOfWeek, hour, minute, week) ==
    DeviceNextScheduledDate(now, dayOfWeek, hour, minute) + week * 7 * Day

\* ------------------------------------------- inputs of the resolver runs

\* The loop of scheduleStudyReminders: week in 0 .. HorizonWeeks - 1.
HorizonWeeks == 8

\* Zones the process may run in (UTC on the hosting service, UTC+8 on a
\* developer's machine).
ServerZones == {0, 8}

\* Times of day at which the resolver is called: the day's ends, whole
\* minutes that configs name, and instants one second off them.
TimesOfDay ==
    {0, 1, 30 * Minute, Hour - 1, Hour, Hour + 1, 8 * Hour, 15 * Hour + 59 * Minute,
     16 * Hour, 16 * Hour + 1, 23 * Hour + 59 * Minute, Day - 1}

\* One week of calendar days, starting a week after the origin.
NowDays == 7 .. 13

ResolverNows == {d * Day + s : d \in NowDays, s \in TimesOfDay}
ResolverHours == 0 .. 23
ResolverMinutes == {0, 30, 59}

NoCall == [called |-> FALSE]

\* the process once initializeFirebase has succeeded and the listener is attached
Watching == [phase |-> "watching", credentials |-> "valid"]

ResolverInit ==
    /\ firebaseInitialized = TRUE
    /\ process = Watching
    /\ replies = {}
    /\ pending = <<>>
    /\ lastCall = NoCall
    /\ serverTz \in ServerZones
    /\ clock \in ResolverNows
    /\ resolved = NoCall
    /\ horizon = HorizonWeeks
    /\ cronFired = {}
    /\ prefs = <<>>
    /\ store = <<>>
    /\ handlers = <<>>
    /\ polls = <<>>
    /\ sweep = [pc |-> "idle"]
    /\ lastPoll = [now |-> -1]
    /\ attempts = {}
    /\ history = <<>>

\* One call of each draft's getNextScheduledDate on the same arguments.
Resolve ==
    /\ resolved = NoCall
    /\ \E dayOfWeek \in 1 .. 7, hour \in ResolverHours, minute \in ResolverMinutes,
          weekOffset \in 0 .. HorizonWeeks - 1 :
        /\ resolved' =
             [called |-> TRUE, now |-> clock, dayOfWeek |-> dayOfWeek, hour |-> hour,
              minute |-> minute, weekOffset |-> weekOffset,
              server |-> getNextScheduledDate(clock, dayOfWeek, hour, minute, weekOffset),
              draft |-> getNextScheduledDateDraft(clock, dayOfWeek, hour, minute, weekOffset)]
        /\ UNCHANGED <<firebaseInitialized, process, replies, pending, lastCall, serverTz, clock, history, machineVars>>

ResolverNext == Resolve

SpecResolver == ResolverInit /\ [][ResolverNext]_vars

\* C2: for every now, weekday 1..7, hour 0..23, minute and weekOffset 0..7,
\* getNextScheduledDate (src/server/index.js and the draft in src/index.js)
\* returns an instant strictly after now, so scheduleStudyReminders' test
\* scheduledDate <= now never skips a record.
C2_ResolvedAfterNow ==
    resolved.called =>
        /\ resolved.server > resolved.now
        /\ resolved.draft > resolved.now

\* the case of C2 nearest to failing: the call is made at the very instant of
\* today's target, which is then not accepted, and the result is a week on
C2_TargetEqualsNow ==
    /\ resolved.called
    /\ resolved.weekOffset = 0
    /\ SetUTCHours(resolved.now, UtcHourOf(resolved.hour), resolved.minute) = resolved.now
    /\ resolved.server = resolved.now + Week

\* ------------------------------------------------------- documents

\* A document is a function from field names to values; a field the document
\* lacks is outside its DOMAIN.
HasField(doc, f) == f \in DOMAIN doc

\* doc.ref.update(fields): the named fields are set, the others kept.
Merge(doc, fields) == fields @@ doc

\* collection minus the documents a batch deletes
Without(coll, ids) == [i \in DOMAIN coll \ ids |-> coll[i]]

\* collection.doc(id).create(doc): an existing document is left as it is.
CreateDoc(coll, id, doc) == [i \in DOMAIN coll \cup {id} |-> IF i \in DOMAIN coll THEN coll[i] ELSE doc]

\* collection.doc(id).set(doc): the document is created or wholly replaced.
SetDoc(coll, id, doc) == [i \in DOMAIN coll \cup {id} |-> IF i = id THEN doc ELSE coll[i]]

\* ----------------------------------- scheduleStudyReminders: the config

\* preferences.studyReminderHour || 9 : an absent field and 0 both give 9.
HourOf(preferences) ==
    IF HasField(preferences, "studyReminderHour") /\ preferences.studyReminderHour # 0
    THEN preferences.studyReminderHour
    ELSE 9

\* preferences.studyReminderMinute || 0
MinuteOf(preferences) ==
    IF HasField(preferences, "studyReminderMinute") /\ preferences.studyReminderMinute # 0
    THEN preferences.studyReminderMinute
    ELSE 0

\* preferences.studyReminderFrequency || 'daily'
FrequencyOf(preferences) ==
    IF HasField(preferences, "studyReminderFrequency") /\ preferences.studyReminderFrequency # ""
    THEN preferences.studyReminderFrequency
    ELSE "daily"

\* preferences.studyReminderDays || []
CustomDaysOf(preferences) ==
    IF HasField(preferences, "studyReminderDays") THEN preferences.studyReminderDays ELSE <<>>

\* data.fcmToken is truthy
HasToken(data) == HasField(data, "fcmToken") /\ data.fcmToken # ""

\* data.studyRemindersEnabled && data.fcmToken
WantsReminders(data) ==
    /\ HasField(data, "studyRemindersEnabled")
    /\ data.studyRemindersEnabled
    /\ HasToken(data)

\* a day number passed on as supplied
convertDayFormatKept(day) == day

\* a translation that takes the list to start at Monday = 0
convertDayFormatShifted(day) == day + 1

convertDayFormat(day) == IF day = 0 THEN 7 ELSE day

\* a switch whose every case lets a supplied day list win
DaysToScheduleListFirst(preferences) ==
    IF HasField(preferences, "studyReminderDays") /\ Len(preferences.studyReminderDays) > 0
    THEN preferences.studyReminderDays
    ELSE <<1, 2, 3, 4, 5, 6, 7>>

\* the switch on frequency: the array daysToSchedule, in order, repeats kept
DaysToSchedule(preferences) ==
    LET frequency == FrequencyOf(preferences)
        customDays == CustomDaysOf(preferences)
    IN  CASE frequency = "daily" -> <<1, 2, 3, 4, 5, 6, 7>>
          [] frequency = "weekly" -> <<1, 2, 3, 4, 5>>
          [] frequency = "custom" ->
                IF Len(customDays) > 0
                THEN [k \in 1 .. Len(customDays) |-> convertDayFormat(customDays[k])]
                ELSE <<1, 2, 3, 4, 5>>
          [] OTHER -> <<1, 2, 3, 4, 5, 6, 7>>

\* src/index.js: the same switch, the custom list passed on without translation
DaysToScheduleDraft(preferences) ==
    LET frequency == FrequencyOf(preferences)
        customDays == CustomDaysOf(preferences)
    IN  CASE frequency = "daily" -> <<1, 2, 3, 4, 5, 6, 7>>
          [] frequency = "weekly" -> <<1, 2, 3, 4, 5>>
          [] frequency = "custom" ->
                IF Len(customDays) > 0 THEN customDays ELSE <<1, 2, 3, 4, 5>>
          [] OTHER -> <<1, 2, 3, 4, 5, 6, 7>>

\* an id that differs from one write to the next, as collection.add() gives
NotificationIdPerWrite(userId, dayOfWeek, week) == <<"study", userId, dayOfWeek, week, clock>>

\* `study_${userId}_${dayOfWeek}_${week}`
NotificationId(userId, dayOfWeek, week) == <<"study", userId, dayOfWeek, week>>

\* the document scheduleStudyReminders stores for one (dayOfWeek, week)
NewNotification(userId, preferences, dayOfWeek, week, scheduledDate, createdAt) ==
    [userId |-> userId,
     fcmToken |-> preferences.fcmToken,
     scheduledFor |-> scheduledDate,
     hour |-> HourOf(preferences),
     minute |-> MinuteOf(preferences),
     dayOfWeek |-> dayOfWeek,
     week |-> week,
     sent |-> FALSE,
     createdAt |-> createdAt]

\* ---------------------------------------------------------- queries

\* Firestore returns the documents of a query without orderBy in the order
\* of their ids; ids compare field by field.
IdBefore(a, b) ==
    \/ a[2] < b[2]
    \/ a[2] = b[2] /\ a[3] < b[3]
    \/ a[2] = b[2] /\ a[3] = b[3] /\ a[4] < b[4]

\* the first n ids of a set, in id order: .limit(n)
FirstByIdOf(ids, n) == {i \in ids : Cardinality({j \in ids : IdBefore(j, i)}) < n}

\* a set of ids as the array a snapshot hands over
RECURSIVE InIdOrder(_)
InIdOrder(ids) ==
    IF ids = {} THEN <<>>
    ELSE LET first == CHOOSE i \in ids : \A j \in ids : ~IdBefore(j, i)
         IN  <<first>> \o InIdOrder(ids \ {first})

\* .where('userId', '==', userId).where('sent', '==', false)
UnsentOf(coll, userId) == {i \in DOMAIN coll : coll[i].userId = userId /\ coll[i].sent = FALSE}

\* .where('sent', '==', false)
Unsent(coll) == {i \in DOMAIN coll : coll[i].sent = FALSE}

\* now <= scheduledFor <= oneMinuteFromNow
PollWindowSeconds == 60
\* the filter with its upper end a minute further on
InPollWindowTwoMinutes(doc, now) ==
    /\ HasField(doc, "scheduledFor")
    /\ doc.scheduledFor >= now
    /\ doc.scheduledFor <= now + 2 * PollWindowSeconds

InPollWindow(doc, now) ==
    /\ HasField(doc, "scheduledFor")
    /\ doc.scheduledFor >= now
    /\ doc.scheduledFor <= now + PollWindowSeconds

\* src/server/index.js: .where('sent','==',false).limit(500), then the filter
\* on the time range in code.  QueryLimit stands for the 500.
QueryLimit == 2
DueNotifications(coll, now) ==
    LET snapshot == FirstByIdOf(Unsent(coll), QueryLimit)
    IN  {i \in snapshot : InPollWindow(coll[i], now)}

\* src/index.js: the store filters on sent and on the time range; its results
\* come ordered by scheduledFor, then id, and .limit applies to those.
DueByStoreQuery(coll, now, limit) ==
    LET due == {i \in Unsent(coll) : InPollWindow(coll[i], now)}
        before(j, i) ==
            \/ coll[j].scheduledFor < coll[i].scheduledFor
            \/ coll[j].scheduledFor = coll[i].scheduledFor /\ IdBefore(j, i)
    IN  {i \in due : Cardinality({j \in due : before(j, i)}) < limit}

\* cleanup: .where('sent','==',true).where('sentAt','<',oneWeekAgo).limit(500)
\* A document without the field sentAt matches no filter on sentAt.
RetentionSeconds == 7 * Day

\* the cleanup query without its condition on sentAt
CleanupQueryAnyAge(coll, now) == {i \in DOMAIN coll : coll[i].sent = TRUE}

CleanupQuery(coll, now) ==
    LET old == {i \in DOMAIN coll :
                   /\ coll[i].sent = TRUE
                   /\ HasField(coll[i], "sentAt")
                   /\ coll[i].sentAt < now - RetentionSeconds}
        before(j, i) ==
            \/ coll[j].sentAt < coll[i].sentAt
            \/ coll[j].sentAt = coll[i].sentAt /\ IdBefore(j, i)
    IN  {i \in old : Cardinality({j \in old : before(j, i)}) < QueryLimit}

\* ------------------------------------------------- bounds and inputs

\* users, by id; ids order as the users do
NumUsers == 2
Users == 1 .. NumUsers

\* weeks generated in the runs of the whole server (the code's 8 in Weeks' place
\* makes every regeneration 8 writes per weekday)
Weeks == 2

\* change events delivered to the watch loop in one run
MaxEvents == 2

\* the clock runs from StartTime in steps of TickStep, MaxSteps times
MaxSteps == 5
TickStep == Minute \div 2
StartTime == 3 * Week - 3 * TickStep

\* whole seconds between a cron callback's start and its reading of the time
MaxJitter == 1

\* Preference documents as the app writes them
\* (src/lib/firebase_notification_service.dart, dataToSave).
PrefDoc(enabled, token, hour, minute, days) ==
    [studyRemindersEnabled |-> enabled, fcmToken |-> token, studyReminderHour |-> hour,
     studyReminderMinute |-> minute, studyReminderFrequency |-> "custom",
     studyReminderDays |-> days]

\* 08:00 in UTC+8 is 00:00 UTC: Monday's occurrence falls 90 s after StartTime.
MondayDoc == PrefDoc(TRUE, "tokA", 8, 0, <<1>>)
\* a minute later, with another token and Monday named twice
LaterDoc == PrefDoc(TRUE, "tokB", 8, 1, <<1, 1>>)
DisabledDoc == PrefDoc(FALSE, "tokA", 8, 0, <<1>>)
EventDocs == {MondayDoc, LaterDoc, DisabledDoc}

\* What user 1's earlier config (Sunday and Wednesday, 20:00 in UTC+8) left
\* in the store: generated on the Saturday nine days before StartTime.
EarlierDoc == PrefDoc(TRUE, "tokA", 20, 0, <<0, 3>>)
EarlierNow == Week + 5 * Day
EarlierNotification(dayOfWeek, week) ==
    NewNotification(1, EarlierDoc, dayOfWeek, week,
                    getNextScheduledDate(EarlierNow, dayOfWeek, 20, 0, week), EarlierNow)
Delivered(doc, at) ==
    Merge(doc, [sent |-> TRUE, sentAt |-> at, messageId |-> <<"msg", at>>])
Failed(doc) == Merge(doc, [sent |-> TRUE, error |-> "not-registered"])
EarlierStore ==
    LET sun0 == EarlierNotification(7, 0)
        sun1 == EarlierNotification(7, 1)
        wed0 == EarlierNotification(3, 0)
        wed1 == EarlierNotification(3, 1)
    IN  (NotificationId(1, 7, 0) :> Delivered(sun0, sun0.scheduledFor - Minute))
        @@ (NotificationId(1, 3, 0) :> Delivered(wed0, wed0.scheduledFor - Minute))
        @@ (NotificationId(1, 7, 1) :> Failed(sun1))
        @@ (NotificationId(1, 3, 1) :> wed1)

\* ---------------------------------------------------------- the server

Init ==
    /\ firebaseInitialized = TRUE
    /\ process = Watching
    /\ replies = {}
    /\ pending = <<>>
    /\ lastCall = NoCall
    /\ serverTz = 0
    /\ clock = StartTime
    /\ resolved = NoCall
    /\ horizon = Weeks
    /\ cronFired = {}
    /\ prefs = (1 :> EarlierDoc)
    /\ store = EarlierStore
    /\ handlers = <<>>
    /\ polls = <<>>
    /\ sweep = [pc |-> "idle"]
    /\ lastPoll = [now |-> -1]
    /\ attempts = {}
    /\ history = <<>>

serverVars == <<firebaseInitialized, process, replies, pending, lastCall, serverTz, resolved, horizon, history>>

\* The callback of docChanges().forEach for one change; it runs up to its first
\* await, the query of cancelAllScheduledNotifications.
NewHandler(userId, type, data) ==
    [userId |-> userId, type |-> type, data |-> data, pc |-> "cancelRead",
     snapshot |-> {}, now |-> 0, week |-> 0, k |-> 1]

\* The app writes a user's preference document; the listener gets the change.
PrefChange(userId, data) ==
    /\ firebaseInitialized
    /\ Len(handlers) < MaxEvents
    /\ prefs' = SetDoc(prefs, userId, data)
    /\ handlers' = Append(handlers,
                          NewHandler(userId,
                                     IF userId \in DOMAIN prefs THEN "modified" ELSE "added",
                                     data))
    /\ UNCHANGED <<serverVars, clock, cronFired, store, polls, sweep, lastPoll, attempts>>

\* The preference document is deleted; change.doc carries its last content.
PrefRemove(userId) ==
    /\ firebaseInitialized
    /\ Len(handlers) < MaxEvents
    /\ userId \in DOMAIN prefs
    /\ prefs' = Without(prefs, {userId})
    /\ handlers' = Append(handlers, NewHandler(userId, "removed", prefs[userId]))
    /\ UNCHANGED <<serverVars, clock, cronFired, store, polls, sweep, lastPoll, attempts>>

\* POST /trigger-schedule/:userId reads the user's preference document and
\* runs the same purge and regeneration; 404 when there is no document.
TriggerSchedule(userId) ==
    /\ firebaseInitialized
    /\ Len(handlers) < MaxEvents
    /\ userId \in DOMAIN prefs
    /\ handlers' = Append(handlers, NewHandler(userId, "trigger", prefs[userId]))
    /\ UNCHANGED <<serverVars, clock, cronFired, prefs, store, polls, sweep, lastPoll, attempts>>

\* cancelAllScheduledNotifications: the query's result
CancelRead(h) ==
    /\ handlers[h].pc = "cancelRead"
    /\ handlers' = [handlers EXCEPT ![h].snapshot = UnsentOf(store, handlers[h].userId),
                                    ![h].pc = "cancelCommit"]
    /\ UNCHANGED <<serverVars, clock, cronFired, prefs, store, polls, sweep, lastPoll, attempts>>

\* a regeneration for change events only
RegeneratesOnChange(hd) == hd.type \in {"added", "modified"} /\ WantsReminders(hd.data)
\* whether the callback goes on to scheduleStudyReminders after the purge
Regenerates(hd) == hd.type \in {"added", "modified", "trigger"} /\ WantsReminders(hd.data)

\* cancelAllScheduledNotifications: batch.commit() deletes what the query
\* returned.  The callback then ends, or enters scheduleStudyReminders, which
\* reads the time once (const now = new Date()).
CancelCommit(h) ==
    /\ handlers[h].pc = "cancelCommit"
    /\ store' = Without(store, handlers[h].snapshot)
    /\ handlers' = [handlers EXCEPT
                      ![h].snapshot = {},
                      ![h].now = IF Regenerates(handlers[h]) THEN clock ELSE 0,
                      ![h].pc = IF Regenerates(handlers[h]) THEN "schedule" ELSE "done"]
    /\ UNCHANGED <<serverVars, clock, cronFired, prefs, polls, sweep, lastPoll, attempts>>

\* scheduleStudyReminders: one pass of the inner loop, for daysToSchedule[k]
\* of the current week.
ScheduleWrite(h) ==
    LET hd == handlers[h]
        days == DaysToSchedule(hd.data)
        dayOfWeek == days[hd.k]
        scheduledDate ==
            getNextScheduledDate(hd.now, dayOfWeek, HourOf(hd.data), MinuteOf(hd.data), hd.week)
        lastOfWeek == hd.k = Len(days)
        lastOfAll == lastOfWeek /\ hd.week + 1 = horizon
    IN  /\ hd.pc = "schedule"
        /\ store' = IF scheduledDate <= hd.now
                    THEN store
                    ELSE SetDoc(store, NotificationId(hd.userId, dayOfWeek, hd.week),
                                NewNotification(hd.userId, hd.data, dayOfWeek, hd.week,
                                                scheduledDate, clock))
        /\ handlers' = [handlers EXCEPT
                          ![h].k = IF lastOfWeek THEN 1 ELSE hd.k + 1,
                          ![h].week = IF lastOfWeek THEN hd.week + 1 ELSE hd.week,
                          ![h].pc = IF lastOfAll THEN "done" ELSE "schedule"]
        /\ UNCHANGED <<serverVars, clock, cronFired, prefs, polls, sweep, lastPoll, attempts>>

\* ------------------------------------------------- the dispatch poll

\* cron '* * * * *' fires at second 0 of every minute.
PollDue == clock % Minute = 0 /\ "poll" \notin cronFired

\* The callback reads the time, queries and filters; dueNotifications keeps
\* each document's id and the data read.
PollTick(jitter) ==
    LET now == clock + jitter
        due == DueNotifications(store, now)
        ids == InIdOrder(due)
        batch == [n \in 1 .. Len(ids) |-> [id |-> ids[n], data |-> store[ids[n]]]]
    IN  /\ firebaseInitialized
        /\ PollDue
        /\ cronFired' = cronFired \cup {"poll"}
        /\ lastPoll' = [now |-> now, selected |-> due]
        /\ polls' = IF batch = <<>> THEN polls ELSE Append(polls, [now |-> now, batch |-> batch])
        /\ UNCHANGED <<serverVars, clock, prefs, store, handlers, sweep, attempts>>

GatewayOutcomes == {"ok", "transient", "permanent"}

\* what is left of run p once the head of its batch is handled
AfterHead(p) ==
    IF Len(polls[p].batch) = 1
    THEN SubSeq(polls, 1, p - 1) \o SubSeq(polls, p + 1, Len(polls))
    ELSE [polls EXCEPT ![p].batch = Tail(@)]

\* run p dropped: an error left the loop over dueNotifications
Aborted(p) == SubSeq(polls, 1, p - 1) \o SubSeq(polls, p + 1, Len(polls))

\* an update that flips the flag it finds instead of setting it
MarkFlipped(doc, response) ==
    Merge(doc, [sent |-> ~doc.sent, sentAt |-> clock, messageId |-> response])

\* an update that also moves the document's instant to the time of the send
MarkSentRescheduled(doc, response) ==
    Merge(doc, [sent |-> TRUE, sentAt |-> clock, messageId |-> response, scheduledFor |-> clock])

\* the update after a successful send
MarkSent(doc, response) == Merge(doc, [sent |-> TRUE, sentAt |-> clock, messageId |-> response])

\* the update after an invalid or unregistered token
MarkInvalid(doc) == Merge(doc, [sent |-> TRUE, error |-> "invalid-token"])

\* sendFCMNotification for the head of run p's batch: the send, then the
\* update the outcome calls for.  update() rejects when the document is gone:
\* in the try block the catch takes it (its code is no messaging code); in the
\* catch block it leaves sendFCMNotification and ends the cron callback's loop.
PollDeliver(p, outcome) ==
    LET head == Head(polls[p].batch)
        id == head.id
        exists == id \in DOMAIN store
        response == <<"msg", polls[p].now, id>>
    IN  /\ attempts' = attempts \cup
                       {[id |-> id, scheduledFor |-> head.data.scheduledFor,
                         token |-> head.data.fcmToken, at |-> polls[p].now,
                         outcome |-> outcome, marked |-> exists /\ outcome # "transient"]}
        /\ store' = CASE outcome = "ok" /\ exists ->
                            [store EXCEPT ![id] = MarkSent(@, response)]
                      [] outcome = "permanent" /\ exists ->
                            [store EXCEPT ![id] = MarkInvalid(@)]
                      [] OTHER -> store
        /\ polls' = IF outcome = "permanent" /\ ~exists THEN Aborted(p) ELSE AfterHead(p)
        /\ UNCHANGED <<serverVars, clock, cronFired, prefs, handlers, sweep, lastPoll>>

\* ------------------------------------------------------ the cleanup

\* cron '0 0 * * *' fires at midnight of the process's zone.
SweepDue == (clock + serverTz * Hour) % Day = 0 /\ "cleanup" \notin cronFired

SweepTick ==
    /\ firebaseInitialized
    /\ SweepDue
    /\ sweep.pc = "idle"
    /\ cronFired' = cronFired \cup {"cleanup"}
    /\ sweep' = [pc |-> "commit", snapshot |-> CleanupQuery(store, clock)]
    /\ UNCHANGED <<serverVars, clock, prefs, store, handlers, polls, lastPoll, attempts>>

SweepCommit ==
    /\ sweep.pc = "commit"
    /\ store' = Without(store, sweep.snapshot)
    /\ sweep' = [pc |-> "idle"]
    /\ UNCHANGED <<serverVars, clock, cronFired, prefs, handlers, polls, lastPoll, attempts>>

\* -------------------------------------------------------- the clock

MaxClock == StartTime + MaxSteps * TickStep

\* the store has answered every call of the watch callbacks and of the cleanup
StoreCallsAnswered ==
    /\ \A h \in DOMAIN handlers : handlers[h].pc = "done"
    /\ sweep.pc = "idle"

\* Time passes once the cron callbacks of the current instant have started.
\* A store call is answered within the TickStep it is made in; a send to the
\* gateway may take any time.
Advance ==
    /\ clock < MaxClock
    /\ ~PollDue
    /\ ~SweepDue
    /\ StoreCallsAnswered
    /\ clock' = clock + TickStep
    /\ cronFired' = {}
    /\ UNCHANGED <<serverVars, prefs, store, handlers, polls, sweep, lastPoll, attempts>>

Next ==
    \/ \E userId \in Users, data \in EventDocs : PrefChange(userId, data)
    \/ \E userId \in Users : PrefRemove(userId)
    \/ \E userId \in Users : TriggerSchedule(userId)
    \/ \E h \in DOMAIN handlers : CancelRead(h)
    \/ \E h \in DOMAIN handlers : CancelCommit(h)
    \/ \E h \in DOMAIN handlers : ScheduleWrite(h)
    \/ \E jitter \in 0 .. MaxJitter : PollTick(jitter)
    \/ \E p \in DOMAIN polls, outcome \in GatewayOutcomes : PollDeliver(p, outcome)
    \/ SweepTick
    \/ SweepCommit
    \/ Advance

Spec == Init /\ [][Next]_vars

\* ------------------------------- regenerations one after the other

\* One owner, the full horizon of 8 weeks, no cron run: the manual trigger is
\* called again only once the run before it has finished.
RegenUser == CHOOSE u \in Users : \A v \in Users : u <= v
\* the earlier config cut down to its Wednesday
WednesdayDoc == PrefDoc(TRUE, "tokA", 20, 0, <<3>>)
RegenDocs == {MondayDoc, LaterDoc, WednesdayDoc}

\* the store the earlier config left, first week delivered, or an empty one
EarlierStoreOf(weeks) ==
    [i \in {NotificationId(RegenUser, d, w) : d \in {3, 7}, w \in 0 .. weeks - 1} |->
        IF i[4] = 0
        THEN Delivered(EarlierNotification(i[3], 0),
                       EarlierNotification(i[3], 0).scheduledFor - Minute)
        ELSE EarlierNotification(i[3], i[4])]
RegenStores == {<<>>, EarlierStoreOf(HorizonWeeks)}

RegenInit ==
    /\ firebaseInitialized = TRUE
    /\ process = Watching
    /\ replies = {}
    /\ pending = <<>>
    /\ lastCall = NoCall
    /\ serverTz \in ServerZones
    /\ clock = StartTime
    /\ resolved = NoCall
    /\ horizon = HorizonWeeks
    /\ cronFired = {}
    /\ prefs \in {(RegenUser :> d) : d \in RegenDocs}
    /\ store \in RegenStores
    /\ handlers = <<>>
    /\ polls = <<>>
    /\ sweep = [pc |-> "idle"]
    /\ lastPoll = [now |-> -1]
    /\ attempts = {}
    /\ history = <<>>

\* POST /trigger-schedule/:userId once the request before it has been answered
RegenStart ==
    /\ firebaseInitialized
    /\ Len(handlers) < MaxEvents
    /\ \A h \in DOMAIN handlers : handlers[h].pc = "done"
    /\ handlers' = Append(handlers, NewHandler(RegenUser, "trigger", prefs[RegenUser]))
    /\ history' = Append(history, store)
    /\ UNCHANGED <<firebaseInitialized, process, replies, pending, lastCall, serverTz, resolved, horizon, clock, cronFired, prefs,
                   store, polls, sweep, lastPoll, attempts>>

\* time passes before a run or between two; a run's store calls are answered
\* within the TickStep
RegenAdvance ==
    /\ clock < MaxClock
    /\ StoreCallsAnswered
    /\ clock' = clock + TickStep
    /\ UNCHANGED <<serverVars, cronFired, prefs, store, handlers, polls, sweep, lastPoll, attempts>>

RegenNext ==
    \/ RegenStart
    \/ \E h \in DOMAIN handlers : CancelRead(h)
    \/ \E h \in DOMAIN handlers : CancelCommit(h)
    \/ \E h \in DOMAIN handlers : ScheduleWrite(h)
    \/ RegenAdvance

SpecRegen == RegenInit /\ [][RegenNext]_vars

\* ------------------------------- regeneration over the config's forms

\* One owner, one regeneration at a time, over the forms a preference document
\* can take: frequency daily, weekly, custom, unrecognised or absent; day lists
\* in the app's numbering (0 = Sunday) and the server's (7 = Sunday), empty or
\* absent; hour 0; the device's zone offset as the app stores it.
ConfigTimes == {<<0, 0>>, <<9, 0>>, <<9, 30>>}
ConfigFrequencies == {"daily", "weekly", "custom", "monthly"}
ConfigDayLists ==
    {<<>>, <<3>>, <<0>>, <<1, 1>>, <<0, 6>>, <<5, 6, 7>>, <<0, 1, 2, 3, 4, 5, 6>>}
ConfigOffsets == {0, 8}
ConfigAbsent == {{}, {"studyReminderFrequency"}, {"studyReminderDays"}}

ConfigDoc(hour, minute, frequency, days, offset) ==
    [studyRemindersEnabled |-> TRUE, fcmToken |-> "tokA", studyReminderHour |-> hour,
     studyReminderMinute |-> minute, studyReminderFrequency |-> frequency,
     studyReminderDays |-> days, timezoneOffset |-> offset]

ConfigDocs ==
    {Without(ConfigDoc(time[1], time[2], frequency, days, offset), absent) :
        time \in ConfigTimes, frequency \in ConfigFrequencies,
        days \in ConfigDayLists, offset \in ConfigOffsets, absent \in ConfigAbsent}

\* Monday 08:00 UTC and Wednesday 00:00 UTC
ConfigNows == {3 * Week + 8 * Hour, 3 * Week + 2 * Day}

ConfigInit ==
    /\ firebaseInitialized = TRUE
    /\ process = Watching
    /\ replies = {}
    /\ pending = <<>>
    /\ lastCall = NoCall
    /\ serverTz \in ServerZones
    /\ clock \in ConfigNows
    /\ resolved = NoCall
    /\ horizon = HorizonWeeks
    /\ cronFired = {}
    /\ prefs \in {(RegenUser :> d) : d \in ConfigDocs}
    /\ store = <<>>
    /\ handlers = <<>>
    /\ polls = <<>>
    /\ sweep = [pc |-> "idle"]
    /\ lastPoll = [now |-> -1]
    /\ attempts = {}
    /\ history = <<>>

ConfigNext ==
    \/ RegenStart
    \/ \E h \in DOMAIN handlers : CancelRead(h)
    \/ \E h \in DOMAIN handlers : CancelCommit(h)
    \/ \E h \in DOMAIN handlers : ScheduleWrite(h)

SpecConfig == ConfigInit /\ [][ConfigNext]_vars

\* ------------------------------- one change event delivered twice

\* The listener hands the same change of one owner's document to the callback
\* more than once; the callbacks run one after the other or interleaved, and
\* the time may move on between any two of their steps.
DuplicateDocs == {MondayDoc, WednesdayDoc, DisabledDoc}

\* half a minute before Monday 00:00 UTC, the instant MondayDoc resolves to
DuplicateStart == 3 * Week - TickStep

DuplicateInit ==
    /\ firebaseInitialized = TRUE
    /\ process = Watching
    /\ replies = {}
    /\ pending = <<>>
    /\ lastCall = NoCall
    /\ serverTz = 0
    /\ clock = DuplicateStart
    /\ resolved = NoCall
    /\ horizon = HorizonWeeks
    /\ cronFired = {}
    /\ prefs \in {(RegenUser :> d) : d \in DuplicateDocs}
    /\ store \in RegenStores
    /\ handlers = <<>>
    /\ polls = <<>>
    /\ sweep = [pc |-> "idle"]
    /\ lastPoll = [now |-> -1]
    /\ attempts = {}
    /\ history = <<>>

\* docChanges().forEach(async (change) => ...) started for the change once more
DuplicateEvent ==
    /\ firebaseInitialized
    /\ Len(handlers) < MaxEvents
    /\ handlers' = Append(handlers, NewHandler(RegenUser, "modified", prefs[RegenUser]))
    /\ history' = Append(history, store)
    /\ UNCHANGED <<firebaseInitialized, process, replies, pending, lastCall, serverTz, resolved, horizon, clock, cronFired, prefs,
                   store, polls, sweep, lastPoll, attempts>>

\* time passes, whatever the callbacks are waiting for
DuplicateAdvance ==
    /\ clock < DuplicateStart + TickStep
    /\ clock' = clock + TickStep
    /\ UNCHANGED <<serverVars, cronFired, prefs, store, handlers, polls, sweep, lastPoll, attempts>>

DuplicateNext ==
    \/ DuplicateEvent
    \/ \E h \in DOMAIN handlers : CancelRead(h)
    \/ \E h \in DOMAIN handlers : CancelCommit(h)
    \/ \E h \in DOMAIN handlers : ScheduleWrite(h)
    \/ DuplicateAdvance

SpecDuplicate == DuplicateInit /\ [][DuplicateNext]_vars

\* --------------------------------------------------------- start-up

\* process.env.FIREBASE_SERVICE_ACCOUNT: not set, set to text that JSON.parse
\* or credential.cert rejects, or a service account
Credentials == {"missing", "malformed", "valid"}

\* initializeFirebase with the flag at its declared value, never accepting any credentials
initializeFirebaseAlways(credentials) == TRUE

\* initializeFirebase: the value it leaves in firebaseInitialized, which is
\* declared false.  Missing credentials return early, a throw is caught and
\* logged; only the path through admin.initializeApp sets the flag.
initializeFirebase(credentials) == credentials = "valid"

\* The module is loaded: both cron callbacks are scheduled, the routes are
\* registered, app.listen has not yet called back.
Loaded == [phase |-> "loaded", credentials |-> "unread"]

StartupInit ==
    /\ firebaseInitialized = FALSE
    /\ process = Loaded
    /\ replies = {}
    /\ pending = <<>>
    /\ lastCall = NoCall
    /\ serverTz = 0
    /\ clock = StartTime
    /\ resolved = NoCall
    /\ horizon = Weeks
    /\ cronFired = {}
    /\ prefs = (1 :> EarlierDoc)
    /\ store = EarlierStore
    /\ handlers = <<>>
    /\ polls = <<>>
    /\ sweep = [pc |-> "idle"]
    /\ lastPoll = [now |-> -1]
    /\ attempts = {}
    /\ history = <<>>

startupVars == <<serverTz, resolved, horizon, history, pending, lastCall>>

\* the callback of app.listen: initializeFirebase(), then the 2 s timer is set
Listen(credentials) ==
    /\ process.phase = "loaded"
    /\ firebaseInitialized' = initializeFirebase(credentials)
    /\ process' = [phase |-> "listening", credentials |-> credentials]
    /\ UNCHANGED <<startupVars, replies, clock, machineVars>>

\* user ids in the order of the documents of a snapshot
RECURSIVE InUserOrder(_)
InUserOrder(ids) ==
    IF ids = {} THEN <<>>
    ELSE LET first == CHOOSE u \in ids : \A v \in ids : u <= v
         IN  <<first>> \o InUserOrder(ids \ {first})

\* The timer's callback: watchNotificationPreferences() when the flag is set;
\* the listener's first snapshot reports every document as 'added'.
WatchTimer ==
    LET ids == InUserOrder(DOMAIN prefs)
    IN  /\ process.phase = "listening"
        /\ process' = [process EXCEPT !.phase = IF firebaseInitialized THEN "watching" ELSE "idle"]
        /\ handlers' = IF firebaseInitialized
                       THEN handlers \o [n \in 1 .. Len(ids) |-> NewHandler(ids[n], "added", prefs[ids[n]])]
                       ELSE handlers
        /\ UNCHANGED <<startupVars, firebaseInitialized, replies, clock, cronFired, prefs, store,
                       polls, sweep, lastPoll, attempts>>

\* GET /
Health ==
    /\ process.phase # "loaded"
    /\ replies' = replies \cup
                  {[request |-> "health", code |-> 200, status |-> "ok",
                    firebaseInitialized |-> firebaseInitialized]}
    /\ UNCHANGED <<startupVars, firebaseInitialized, process, clock, machineVars>>

\* POST /trigger-schedule/:userId with its early answers: 500 while the flag
\* is unset, 404 when the user has no preference document.  (The answer after
\* a regeneration is not recorded.)
StartupTrigger(userId) ==
    /\ process.phase # "loaded"
    /\ \/ /\ ~firebaseInitialized
          /\ replies' = replies \cup {[request |-> "trigger", code |-> 500]}
          /\ UNCHANGED <<startupVars, firebaseInitialized, process, clock, machineVars>>
       \/ /\ firebaseInitialized
          /\ userId \notin DOMAIN prefs
          /\ replies' = replies \cup {[request |-> "trigger", code |-> 404]}
          /\ UNCHANGED <<startupVars, firebaseInitialized, process, clock, machineVars>>
       \/ TriggerSchedule(userId)

\* the every-minute callback returning at its test of the flag
PollSkipped ==
    /\ ~firebaseInitialized
    /\ PollDue
    /\ cronFired' = cronFired \cup {"poll"}
    /\ UNCHANGED <<serverVars, clock, prefs, store, handlers, polls, sweep, lastPoll, attempts>>

\* the cleanup callback returning at its test of the flag
SweepSkipped ==
    /\ ~firebaseInitialized
    /\ SweepDue
    /\ cronFired' = cronFired \cup {"cleanup"}
    /\ UNCHANGED <<serverVars, clock, prefs, store, handlers, polls, sweep, lastPoll, attempts>>

\* a change reaches the callback only once the listener is attached
WatchedChange(userId, data) ==
    /\ process.phase = "watching"
    /\ PrefChange(userId, data)

StartupNext ==
    \/ \E credentials \in Credentials : Listen(credentials)
    \/ WatchTimer
    \/ Health
    \/ \E userId \in Users : StartupTrigger(userId)
    \/ \E userId \in Users : WatchedChange(userId, MondayDoc)
    \/ \E h \in DOMAIN handlers : CancelRead(h)
    \/ \E h \in DOMAIN handlers : CancelCommit(h)
    \/ \E h \in DOMAIN handlers : ScheduleWrite(h)
    \/ \E jitter \in 0 .. MaxJitter : PollTick(jitter)
    \/ \E p \in DOMAIN polls, outcome \in GatewayOutcomes : PollDeliver(p, outcome)
    \/ PollSkipped
    \/ SweepTick
    \/ SweepCommit
    \/ SweepSkipped
    \/ Advance

SpecStartup == StartupInit /\ [][StartupNext]_vars

\* ------------------------------------- one poll run, its loop as a whole

\* sendFCMNotification for one entry of dueNotifications, on the store as it
\* is when the send returns: the store it leaves, and whether its promise
\* rejects (the update in the catch block finding no document).
SendOne(coll, now, entry, outcome) ==
    LET id == entry.id
        exists == id \in DOMAIN coll
    IN  [coll |-> CASE outcome = "ok" /\ exists ->
                          [coll EXCEPT ![id] = MarkSent(@, <<"msg", now, id>>)]
                    [] outcome = "permanent" /\ exists ->
                          [coll EXCEPT ![id] = MarkInvalid(@)]
                    [] OTHER -> coll,
         rejected |-> outcome = "permanent" /\ ~exists]

\* src/server/index.js: for (const doc of dueNotifications) { await
\* sendFCMNotification(...) } inside the callback's try: the entries one after
\* the other, the loop left at the first rejection.
RECURSIVE ServerLoop(_, _, _, _)
ServerLoop(coll, now, entries, outcomeOf) ==
    IF entries = <<>> THEN coll
    ELSE LET sent == SendOne(coll, now, Head(entries), outcomeOf[Head(entries).id])
         IN  IF sent.rejected THEN sent.coll
             ELSE ServerLoop(sent.coll, now, Tail(entries), outcomeOf)

\* src/index.js: snapshot.forEach(async (doc) => { await
\* sendFCMNotification(...) }): a callback per entry, none waiting for
\* another; each writes to the document of its own id only.
RECURSIVE DraftLoop(_, _, _, _)
DraftLoop(coll, now, entries, outcomeOf) ==
    IF entries = <<>> THEN coll
    ELSE DraftLoop(SendOne(coll, now, Head(entries), outcomeOf[Head(entries).id]).coll,
                   now, Tail(entries), outcomeOf)

\* the entries of a batch in every order
Orders(batch) ==
    LET entries == {batch[k] : k \in DOMAIN batch}
    IN  {o \in [DOMAIN batch -> entries] : {o[k] : k \in DOMAIN o} = entries}

\* the positions of a batch that the server's loop reaches
Reached(coll, entries, outcomeOf) ==
    {n \in DOMAIN entries :
        \A m \in 1 .. n - 1 :
            ~(outcomeOf[entries[m].id] = "permanent" /\ entries[m].id \notin DOMAIN coll)}

\* Every user has the config MondayDoc and its document of week 0, due on
\* Monday 00:00 UTC; the clock stands a minute before.
BatchStore ==
    [i \in {NotificationId(u, 1, 0) : u \in Users} |->
        NewNotification(i[2], MondayDoc, 1, 0, 3 * Week, StartTime)]

BatchInit ==
    /\ firebaseInitialized = TRUE
    /\ process = Watching
    /\ replies = {}
    /\ pending = <<>>
    /\ lastCall = NoCall
    /\ serverTz = 0
    /\ clock = 3 * Week - Minute
    /\ resolved = NoCall
    /\ horizon = Weeks
    /\ cronFired = {}
    /\ prefs = [u \in Users |-> MondayDoc]
    /\ store = BatchStore
    /\ handlers = <<>>
    /\ polls = <<>>
    /\ sweep = [pc |-> "idle"]
    /\ lastPoll = [now |-> -1]
    /\ attempts = {}
    /\ history = <<>>

\* The sends of run p, in some order of its batch, with nothing else running
\* in between; the gateway's answer depends on the document sent for.
RunSends(p, order, outcomeOf) ==
    LET run == polls[p]
        reached == Reached(store, order, outcomeOf)
    IN  /\ order \in Orders(run.batch)
        /\ store' = ServerLoop(store, run.now, order, outcomeOf)
        /\ attempts' = attempts \cup
                       {[id |-> order[n].id, scheduledFor |-> order[n].data.scheduledFor,
                         token |-> order[n].data.fcmToken, at |-> run.now,
                         outcome |-> outcomeOf[order[n].id],
                         marked |-> /\ order[n].id \in DOMAIN store
                                    /\ outcomeOf[order[n].id] # "transient"] : n \in reached}
        /\ polls' = Aborted(p)
        /\ lastPoll' = [now |-> run.now, selected |-> {run.batch[k].id : k \in DOMAIN run.batch},
                        order |-> order, gateway |-> outcomeOf]
        /\ UNCHANGED <<serverVars, clock, cronFired, prefs, handlers, sweep>>

BatchNext ==
    \/ \E jitter \in 0 .. MaxJitter : PollTick(jitter)
    \/ \E userId \in Users : PrefRemove(userId)
    \/ \E h \in DOMAIN handlers : CancelRead(h)
    \/ \E h \in DOMAIN handlers : CancelCommit(h)
    \/ \E p \in DOMAIN polls :
          \E order \in Orders(polls[p].batch) :
             \E outcomeOf \in [{polls[p].batch[k].id : k \in DOMAIN polls[p].batch} -> GatewayOutcomes] :
                RunSends(p, order, outcomeOf)

SpecBatch == BatchInit /\ [][BatchNext]_vars

\* ---------------------------------------- the poll run and the gateway

\* The run's sends one at a time (PollDeliver), next to the cleanup and the
\* passing of time.
GatewayNext ==
    \/ \E jitter \in 0 .. MaxJitter : PollTick(jitter)
    \/ \E p \in DOMAIN polls, outcome \in GatewayOutcomes : PollDeliver(p, outcome)
    \/ SweepTick
    \/ SweepCommit
    \/ Advance

\* What the process itself schedules: the cron fires, the store answers the
\* cleanup, time passes. admin.messaging().send(message) is awaited with no
\* timer, race or abort signal of the caller's: nothing in the callback makes
\* the await end, so PollDeliver carries no fairness.
GatewayFairness ==
    /\ WF_vars(\E jitter \in 0 .. MaxJitter : PollTick(jitter))
    /\ WF_vars(SweepTick)
    /\ WF_vars(SweepCommit)
    /\ WF_vars(Advance)

SpecGateway == BatchInit /\ [][GatewayNext]_vars /\ GatewayFairness

\* ------------------------------- the manual trigger and the watch loop

\* The first user has a config, the others none; the store holds what the
\* first user's earlier config left, or nothing.
TriggerInit ==
    /\ firebaseInitialized = TRUE
    /\ process = Watching
    /\ replies = {}
    /\ pending = <<>>
    /\ lastCall = NoCall
    /\ serverTz \in ServerZones
    /\ clock = StartTime
    /\ resolved = NoCall
    /\ horizon = HorizonWeeks
    /\ cronFired = {}
    /\ prefs \in {(RegenUser :> d) : d \in RegenDocs \cup {DisabledDoc}}
    /\ store \in RegenStores
    /\ handlers = <<>>
    /\ polls = <<>>
    /\ sweep = [pc |-> "idle"]
    /\ lastPoll = [now |-> -1]
    /\ attempts = {}
    /\ history = <<>>

\* POST /trigger-schedule/:userId with nothing else running: 404 when the
\* user has no preference document, else the purge and regeneration from the
\* document read.
TriggerRequest(userId) ==
    /\ firebaseInitialized
    /\ \A h \in DOMAIN handlers : handlers[h].pc = "done"
    /\ \/ /\ userId \notin DOMAIN prefs
          /\ replies' = replies \cup {[request |-> "trigger", code |-> 404]}
          /\ UNCHANGED <<firebaseInitialized, process, pending, lastCall, serverTz, resolved,
                         horizon, history, clock, machineVars>>
       \/ /\ userId \in DOMAIN prefs
          /\ Len(handlers) < MaxEvents
          /\ handlers' = Append(handlers, NewHandler(userId, "trigger", prefs[userId]))
          /\ history' = Append(history, store)
          /\ UNCHANGED <<firebaseInitialized, process, replies, pending, lastCall, serverTz, resolved, horizon,
                         clock, cronFired, prefs, store, polls, sweep, lastPoll, attempts>>

\* a change event of type 'modified' with nothing else running
WatchedModified(userId, data) ==
    /\ firebaseInitialized
    /\ \A h \in DOMAIN handlers : handlers[h].pc = "done"
    /\ Len(handlers) < MaxEvents
    /\ userId \in DOMAIN prefs
    /\ prefs' = SetDoc(prefs, userId, data)
    /\ handlers' = Append(handlers, NewHandler(userId, "modified", data))
    /\ history' = Append(history, store)
    /\ UNCHANGED <<firebaseInitialized, process, replies, pending, lastCall, serverTz, resolved, horizon,
                   clock, cronFired, store, polls, sweep, lastPoll, attempts>>

TriggerNext ==
    \/ \E userId \in Users : TriggerRequest(userId)
    \/ \E userId \in Users, data \in {MondayDoc, DisabledDoc} : WatchedModified(userId, data)
    \/ \E h \in DOMAIN handlers : CancelRead(h)
    \/ \E h \in DOMAIN handlers : CancelCommit(h)
    \/ \E h \in DOMAIN handlers : ScheduleWrite(h)
    \/ RegenAdvance

SpecTrigger == TriggerInit /\ [][TriggerNext]_vars

\* ------------------------------------- the device's local notifications

\* the weeks both scheduling methods run ahead
DeviceWeeks == 8

StudyBase == 1000
BreakBase == 2000
LegacyBreakId == 2

\* 1000 + day + (week * 100), 2000 + day + (week * 100)
LocalId(base, day, week) == base + day + week * 100

\* the switch on frequency of both methods
DeviceDaysToSchedule(frequency, customDays) ==
    CASE frequency = "daily" -> <<1, 2, 3, 4, 5, 6, 7>>
      [] frequency = "weekly" -> <<1, 2, 3, 4, 5>>
      [] frequency = "custom" -> customDays
      [] OTHER -> <<1, 2, 3, 4, 5, 6, 7>>

\* _notifications.cancel(id) for each id: an id that is not pending is no error
CancelLocal(coll, ids) == [i \in DOMAIN coll \ ids |-> coll[i]]

\* the loops over daysToSchedule and the weeks: zonedSchedule under the id of
\* (day, week) for the date of that week, unless the date is before now
ZonedSchedules(now, base, days, hour, minute) ==
    LET made == {<<days[k], week>> : k \in DOMAIN days, week \in 0 .. DeviceWeeks - 1}
        kept == {dw \in made : DeviceWeekDate(now, dw[1], hour, minute, dw[2]) > now}
    IN  [i \in {LocalId(base, dw[1], dw[2]) : dw \in kept} |->
            DeviceWeekDate(now, (i - base) % 100, hour, minute, (i - base) \div 100)]

DeviceFrequencies == {"daily", "weekly", "custom"}
DeviceDayLists == {<<1, 3>>}
DeviceTimes == {<<9, 0>>, <<20, 30>>}

DeviceInit ==
    /\ firebaseInitialized = TRUE
    /\ process = Watching
    /\ replies = {}
    /\ pending = <<>>
    /\ lastCall = NoCall
    /\ serverTz = 0
    /\ clock = StartTime
    /\ resolved = NoCall
    /\ horizon = HorizonWeeks
    /\ cronFired = {}
    /\ prefs = <<>>
    /\ store = <<>>
    /\ handlers = <<>>
    /\ polls = <<>>
    /\ sweep = [pc |-> "idle"]
    /\ lastPoll = [now |-> -1]
    /\ attempts = {}
    /\ history = <<>>

deviceVars == <<firebaseInitialized, process, replies, serverTz, resolved, history, machineVars>>

\* scheduleStudyReminder: the 56 ids are cancelled, then the days of this call
\* are scheduled.
ScheduleStudyReminder(hour, minute, frequency, customDays) ==
    LET days == DeviceDaysToSchedule(frequency, customDays)
        all == {LocalId(StudyBase, day, week) : day \in 1 .. 7, week \in 0 .. DeviceWeeks - 1}
    IN  /\ pending' = ZonedSchedules(clock, StudyBase, days, hour, minute)
                        @@ CancelLocal(pending, all)
        /\ lastCall' = [called |-> TRUE, method |-> "study", now |-> clock, days |-> days]
        /\ UNCHANGED <<deviceVars, clock>>

\* scheduleBreakReminder: id 2 is cancelled, then the days of this call are
\* scheduled; zonedSchedule under a pending id replaces that notification.
ScheduleBreakReminder(hour, minute, frequency, customDays) ==
    LET days == DeviceDaysToSchedule(frequency, customDays)
    IN  /\ pending' = ZonedSchedules(clock, BreakBase, days, hour, minute)
                        @@ CancelLocal(pending, {LegacyBreakId})
        /\ lastCall' = [called |-> TRUE, method |-> "break", now |-> clock, days |-> days]
        /\ UNCHANGED <<deviceVars, clock>>

\* time passes on the device; a notification whose instant has come is shown
\* and is no longer pending
DeviceAdvance ==
    /\ clock < MaxClock
    /\ clock' = clock + TickStep
    /\ pending' = [i \in {j \in DOMAIN pending : pending[j] > clock'} |-> pending[i]]
    /\ UNCHANGED <<deviceVars, lastCall>>

DeviceNext ==
    \/ \E t \in DeviceTimes, frequency \in DeviceFrequencies, customDays \in DeviceDayLists :
          ScheduleStudyReminder(t[1], t[2], frequency, customDays)
    \/ \E t \in DeviceTimes, frequency \in DeviceFrequencies, customDays \in DeviceDayLists :
          ScheduleBreakReminder(t[1], t[2], frequency, customDays)
    \/ DeviceAdvance

SpecDevice == DeviceInit /\ [][DeviceNext]_vars

\* ------------------------------------------------------------ claims

\* the occurrence key a stored document carries in its own fields
KeyOf(doc) == <<doc.userId, doc.dayOfWeek, doc.week>>

\* C3: in every reachable state of the store there is at most one document
\* for an owner and a (weekday, week): a regeneration writes over the document
\* with that id, also when the day list names a weekday twice.
C3_OneRecordPerKey ==
    \A i, j \in DOMAIN store : KeyOf(store[i]) = KeyOf(store[j]) => i = j

\* a regeneration from a day list naming Monday twice has finished, over a
\* store that already held a document for one of its keys
C3_RepeatedDayRegenerated ==
    \E h \in DOMAIN handlers :
        /\ handlers[h].pc = "done"
        /\ handlers[h].data = LaterDoc
        /\ NotificationId(handlers[h].userId, 1, 0) \in DOMAIN store
        /\ \E g \in 1 .. h - 1 :
              /\ handlers[g].userId = handlers[h].userId
              /\ Regenerates(handlers[g])

\* the pushes the gateway accepted
\* what a run of the regeneration resolves: id, instant and token of each document
ResolvedBy(hd) ==
    IF ~Regenerates(hd) THEN {}
    ELSE LET days == DaysToSchedule(hd.data)
         IN  {[id |-> NotificationId(hd.userId, days[k], week),
               scheduledFor |-> getNextScheduledDate(hd.now, days[k], HourOf(hd.data),
                                                     MinuteOf(hd.data), week),
               token |-> hd.data.fcmToken] : k \in DOMAIN days, week \in 0 .. horizon - 1}

\* the owner's occurrences in a collection: document id and scheduledFor
Occurrences(coll, userId) ==
    {<<i, coll[i].scheduledFor>> : i \in {j \in DOMAIN coll : coll[j].userId = userId}}

\* one regeneration for hd applied to a collection in a single step
RegeneratedFrom(coll, hd) ==
    LET purged == Without(coll, UnsentOf(coll, hd.userId))
        res == ResolvedBy(hd)
    IN  [i \in DOMAIN purged \cup {r.id : r \in res} |->
            IF \E r \in res : r.id = i
            THEN [userId |-> hd.userId,
                  scheduledFor |-> (CHOOSE r \in res : r.id = i).scheduledFor]
            ELSE purged[i]]

\* C4: a regeneration run right after another for the same owner and config
\* leaves the occurrences one run leaves: the ids and instants of one run made
\* at the second run's time, which are those the first run left when both runs
\* read the same time; no occurrence key has two documents.
C4_TwiceIsOnce ==
    \A h \in DOMAIN handlers :
        h > 1 /\ h = Len(handlers) /\ handlers[h].pc = "done"
        => LET hd == handlers[h]
               mine == {i \in DOMAIN store : store[i].userId = hd.userId}
           IN  /\ Occurrences(store, hd.userId)
                    = Occurrences(RegeneratedFrom(history[h - 1], hd), hd.userId)
               /\ handlers[h - 1].now = hd.now
                    => Occurrences(store, hd.userId) = Occurrences(history[h], hd.userId)
               /\ \A i, j \in mine : KeyOf(store[i]) = KeyOf(store[j]) => i = j

\* two runs at one reading of the time over a store that held delivered and
\* pending documents of the same ids, and of other ids
C4_RegeneratedTwice ==
    /\ Len(handlers) = 2
    /\ handlers[2].pc = "done"
    /\ handlers[1].now = handlers[2].now
    /\ \E i \in DOMAIN history[1] : i \in DOMAIN store /\ history[1][i].sent /\ ~store[i].sent
    /\ \E i \in DOMAIN history[1] : i \notin DOMAIN store
    /\ Occurrences(store, RegenUser) # {}

Pushes == {a \in attempts : a.outcome = "ok"}

\* C1: once a document has sent = TRUE no later operation puts it back to
\* sent = FALSE, and no poll run that starts later selects it for a push.  The
\* document is followed while it stands for the same instant: an id that a
\* later week's occurrence takes over is left out.
C1_DeliveredStaysDelivered ==
    [][ /\ \A i \in DOMAIN store :
              /\ store[i].sent
              /\ i \in DOMAIN store'
              /\ store'[i].scheduledFor = store[i].scheduledFor
              => store'[i].sent
        /\ lastPoll' # lastPoll =>
              \A i \in lastPoll'.selected :
                  ~\E b \in Pushes :
                      b.id = i /\ b.marked /\ b.scheduledFor = store[i].scheduledFor ]_vars

Described(coll, i) ==
    [id |-> i, scheduledFor |-> coll[i].scheduledFor, token |-> coll[i].fcmToken]

AllHandled == \A h \in DOMAIN handlers : handlers[h].pc = "done"

\* C5: when change A of an owner is delivered before change B, then once both
\* callbacks have finished the owner's unsent documents are among those
\* resolved from B's document (none when B is disabled or a removal).
C5_LaterChangeWins ==
    \A a, b \in DOMAIN handlers :
        /\ a < b
        /\ handlers[a].userId = handlers[b].userId
        /\ \A g \in DOMAIN handlers : g > b => handlers[g].userId # handlers[b].userId
        /\ AllHandled
        => \A i \in UnsentOf(store, handlers[b].userId) :
               Described(store, i) \in ResolvedBy(handlers[b])

\* the attempts made for the occurrence a document stands for
AttemptsOf(coll, i) ==
    {a \in attempts : a.id = i /\ a.scheduledFor = coll[i].scheduledFor}

\* A poll run selects a document only when scheduledFor >= the time it reads,
\* and no run reads a time before the clock: an unsent document whose instant
\* is behind the clock is selected by no run to come.
StillSelectable(doc) == doc.scheduledFor >= clock

\* a run in progress has document i in what is left of its batch
AwaitsSend(coll, i) ==
    \E p \in DOMAIN polls : \E n \in DOMAIN polls[p].batch :
        /\ polls[p].batch[n].id = i
        /\ polls[p].batch[n].data.scheduledFor = coll[i].scheduledFor

\* C6: after a send failed with an error other than an invalid or unregistered
\* token the document stays sent = FALSE and a later poll run attempts it
\* again: while it has not been attempted again, a run to come can select it.
C6_TransientRetried ==
    \A a \in attempts :
        /\ a.outcome = "transient"
        /\ a.id \in DOMAIN store
        /\ store[a.id].scheduledFor = a.scheduledFor
        /\ store[a.id].fcmToken = a.token
        => /\ store[a.id].sent = FALSE
              \/ \E b \in AttemptsOf(store, a.id) : b.outcome # "transient"
           /\ \/ \E b \in AttemptsOf(store, a.id) : b.at > a.at
              \/ store[a.id].sent
              \/ AwaitsSend(store, a.id)
              \/ StillSelectable(store[a.id])

\* C7: when a send fails on an invalid or unregistered token the document is
\* made terminal in that same attempt, with the error recorded, and no poll run
\* that starts later selects that occurrence again.
C7_InvalidTokenTerminal ==
    [][ /\ \A a \in attempts' \ attempts :
              a.outcome = "permanent" /\ a.id \in DOMAIN store
              => store'[a.id].sent /\ HasField(store'[a.id], "error")
        /\ lastPoll' # lastPoll =>
              \A i \in lastPoll'.selected :
                  ~\E a \in attempts :
                      /\ a.id = i
                      /\ a.outcome = "permanent"
                      /\ a.marked
                      /\ a.scheduledFor = store[i].scheduledFor
                      /\ a.token = store[i].fcmToken ]_vars

\* C8: every document that no purge removes is attempted by a poll run; none
\* stays unsent and unattempted for ever after its instant: a document not yet
\* attempted awaits its send in a run in progress or can be selected by a run
\* to come.
C8_AttemptedWhenDue ==
    \A i \in DOMAIN store :
        store[i].sent = FALSE /\ AttemptsOf(store, i) = {}
        => AwaitsSend(store, i) \/ StillSelectable(store[i])

\* C9: a poll run selects every unsent document whose scheduledFor lies in
\* [now, now + 60 s], up to the limit counted over the due documents: the
\* state-only query with the filter in code selects what the store-side query
\* on sent and the time range selects.
C9_SelectsAllDue ==
    [][lastPoll' # lastPoll =>
          lastPoll'.selected = DueByStoreQuery(store, lastPoll'.now, QueryLimit)]_vars

\* C10: after a regeneration for an owner has finished, with nothing else in
\* progress, the owner's documents are exactly the newly resolved ones.
C10_OnlyResolvedRemain ==
    \A h \in DOMAIN handlers :
        /\ AllHandled
        /\ polls = <<>>
        /\ sweep.pc = "idle"
        /\ Regenerates(handlers[h])
        /\ \A g \in DOMAIN handlers : g > h => handlers[g].userId # handlers[h].userId
        => {i \in DOMAIN store : store[i].userId = handlers[h].userId}
              = {r.id : r \in ResolvedBy(handlers[h])}

\* C11: after the watch callback has handled an add or update whose document
\* has reminders disabled or no token, or a removal, with no other event of
\* that owner in progress, the store holds no document of that owner, whatever
\* its delivery state.
C11_PurgedOwnerHasNoRecords ==
    \A h \in DOMAIN handlers :
        /\ handlers[h].type \in {"added", "modified", "removed"}
        /\ ~Regenerates(handlers[h])
        /\ handlers[h].pc = "done"
        /\ \A g \in DOMAIN handlers :
              g # h /\ handlers[g].userId = handlers[h].userId
              => g < h /\ handlers[g].pc = "done"
        => {i \in DOMAIN store : store[i].userId = handlers[h].userId} = {}

\* a push made earlier by another run for the occurrence attempt a is for
PushedByOtherRun(a) ==
    {b \in Pushes : b.id = a.id /\ b.scheduledFor = a.scheduledFor /\ b.marked /\ b.at # a.at}

\* C12: when two poll runs that overlap have read the same unsent due document
\* both send a push; the second run's update finds the document, is accepted,
\* and leaves exactly one document for the occurrence, with sent = TRUE.
C12_OverlappingRunsMarkOnce ==
    [][\A a \in attempts' \ attempts :
          /\ a.outcome = "ok"
          /\ PushedByOtherRun(a) # {}
          /\ a.id \in DOMAIN store
          /\ store[a.id].scheduledFor = a.scheduledFor
          => /\ a.marked
             /\ DOMAIN store' = DOMAIN store
             /\ store'[a.id].sent
             /\ Cardinality({i \in DOMAIN store' : KeyOf(store'[i]) = KeyOf(store'[a.id])}) = 1]_vars

\* two runs have each pushed for one occurrence and marked it, and the
\* document was written before either run read the store
C12_BothRunsPushed ==
    \E a \in Pushes :
        /\ a.marked
        /\ a.id \in DOMAIN store
        /\ store[a.id].scheduledFor = a.scheduledFor
        /\ store[a.id].sent
        /\ store[a.id].createdAt + TickStep <= a.at
        /\ \E b \in PushedByOtherRun(a) : store[a.id].createdAt + TickStep <= b.at

\* delivered documents whose sentAt is more than the retention before now
Expired(coll, now) ==
    {i \in DOMAIN coll :
        coll[i].sent /\ HasField(coll[i], "sentAt") /\ now - coll[i].sentAt > RetentionSeconds}

C14_FailedCleanedUp ==
    [][sweep.pc = "commit" /\ sweep'.pc = "idle" =>
          \A i \in DOMAIN store :
              /\ store[i].sent
              /\ HasField(store[i], "error")
              /\ ~HasField(store[i], "sentAt")
              /\ clock - store[i].createdAt > RetentionSeconds
              => i \notin DOMAIN store']_vars

\* the call of the scenario: now a Monday 08:00 UTC, Monday's occurrence of
\* week 0 for 09:00 in the owner's zone
MondayMorningCall ==
    /\ resolved.called
    /\ resolved.now % Week = 8 * Hour
    /\ resolved.dayOfWeek = 1
    /\ resolved.hour = 9
    /\ resolved.minute = 0
    /\ resolved.weekOffset = 0

DailyAtNine == [PrefDoc(TRUE, "tokA", 9, 0, <<>>) EXCEPT !.studyReminderFrequency = "daily"]

\* C15: with now = Monday 08:00 UTC and a daily config of 09:00 at UTC+8 the
\* UTC hour is 1 and Monday's occurrence of week 0 is the following Monday at
\* 01:00 UTC, not the current day.
C15_FollowingMonday ==
    MondayMorningCall
    => /\ UtcHourOf(HourOf(DailyAtNine)) = 1
       /\ \E k \in DOMAIN DaysToSchedule(DailyAtNine) : DaysToSchedule(DailyAtNine)[k] = 1
       /\ resolved.server = UtcMidnight(resolved.now) + Week + Hour

\* the scenario's call was made, on a day whose 01:00 UTC has passed
C15_MondayMorningResolved ==
    /\ MondayMorningCall
    /\ SetUTCHours(resolved.now, 1, 0) < resolved.now

\* the config of the scenario: 00:00, custom days {3}, zone offset 0
WednesdayMidnightDoc == ConfigDoc(0, 0, "custom", <<3>>, 0)

\* a regeneration for the scenario's config that read Wednesday 00:00 UTC has finished
WednesdayMidnightRun(hd) ==
    /\ hd.pc = "done"
    /\ hd.data = WednesdayMidnightDoc
    /\ hd.now % Week = 2 * Day

\* C16: with now = Wednesday 00:00 UTC and a config of 00:00, custom days {3}
\* and zone offset 0, the occurrence of week 0 is the next Wednesday at 00:00
\* UTC: the instant equal to now is not accepted.
C16_NextWednesday ==
    \A h \in DOMAIN handlers :
        WednesdayMidnightRun(handlers[h])
        => /\ NotificationId(handlers[h].userId, 3, 0) \in DOMAIN store
           /\ store[NotificationId(handlers[h].userId, 3, 0)].scheduledFor
                 = handlers[h].now + Week

\* hour and minute of the UTC day at instant t
UtcHourAt(t) == (t % Day) \div Hour
UtcMinuteAt(t) == (t % Hour) \div Minute

\* C17: the UTC hour of a config's occurrences is (hour - offsetHours + 24)
\* mod 24 with offsetHours the zone offset stored in that config's own
\* document, and the minute is the config's minute.
C17_OwnOffsetUsed ==
    \A i \in DOMAIN store :
        LET offsetHours == prefs[store[i].userId].timezoneOffset
        IN  /\ UtcHourAt(store[i].scheduledFor) = (store[i].hour - offsetHours + 24) % 24
            /\ UtcMinuteAt(store[i].scheduledFor) = store[i].minute

\* the set of the values of a sequence
Range(seq) == {seq[k] : k \in DOMAIN seq}

\* the weekdays of the documents a finished run left for its owner
DaysWritten(hd) == {store[i].dayOfWeek : i \in {j \in DOMAIN store : store[j].userId = hd.userId}}

IsDaily(data) ==
    HasField(data, "studyReminderFrequency") /\ data.studyReminderFrequency = "daily"

\* C18: for every config whose frequency is daily, whatever its day list
\* holds, the days passed to the resolver are exactly 1..7 (both drafts), and
\* the finished run has written documents for exactly these days.
C18_DailyIsEveryDay ==
    \A h \in DOMAIN handlers :
        IsDaily(handlers[h].data)
        => /\ Range(DaysToSchedule(handlers[h].data)) = 1 .. 7
           /\ Range(DaysToScheduleDraft(handlers[h].data)) = 1 .. 7
           /\ handlers[h].pc = "done" /\ h = Len(handlers)
                 => DaysWritten(handlers[h]) = 1 .. 7

\* a daily config that carries a day list of its own has been regenerated
C18_DailyWithListDone ==
    \E h \in DOMAIN handlers :
        /\ IsDaily(handlers[h].data)
        /\ HasField(handlers[h].data, "studyReminderDays")
        /\ handlers[h].data.studyReminderDays = <<3>>
        /\ handlers[h].pc = "done"
        /\ Cardinality(DaysWritten(handlers[h])) = 7

\* the supplied day in the server's numbering: Sunday is 7
InServerNumbering(day) == IF day = 0 THEN 7 ELSE day

CarriesMarkOf(doc, outcome) ==
    \/ /\ outcome = "ok"
       /\ doc.sent
       /\ HasField(doc, "sentAt")
       /\ HasField(doc, "messageId")
    \/ /\ outcome = "permanent"
       /\ doc.sent
       /\ HasField(doc, "error")
       /\ ~HasField(doc, "sentAt")

\* C20: marking is idempotent: the delivered mark (or the failed mark) applied
\* to a document that already carries that terminal state is accepted and
\* leaves the document as it was (sent, sentAt, messageId, error).
C20_MarkIdempotent ==
    [][\A a \in attempts' \ attempts :
          /\ a.outcome \in {"ok", "permanent"}
          /\ a.id \in DOMAIN store
          /\ CarriesMarkOf(store[a.id], a.outcome)
          => a.marked /\ store'[a.id] = store[a.id]]_vars

\* C21: the terminal outcome of a document never changes: a document marked
\* delivered (sent = TRUE with a messageId) is never later given an error, and
\* one marked failed (sent = TRUE with an error) is never later given a
\* messageId, whatever the interleaving of the poll runs.
C21_OutcomeNeverChanges ==
    [][\A i \in DOMAIN store \cap DOMAIN store' :
          /\ store[i].sent /\ HasField(store[i], "messageId")
                => ~HasField(store'[i], "error")
          /\ store[i].sent /\ HasField(store[i], "error")
                => ~HasField(store'[i], "messageId")]_vars

\* the owner's occurrences after the change was handled once, by callback hd
\* alone, from the store the first delivery found
HandledOnce(hd) == Occurrences(RegeneratedFrom(history[1], hd), hd.userId)

\* C22: once every callback of a change event delivered twice has finished,
\* one after the other or interleaved, the owner's occurrences (document id
\* and instant) are those that handling the event once leaves.
C22_DuplicateEventSameRecords ==
    /\ Len(handlers) > 1
    /\ AllHandled
    => \E h \in DOMAIN handlers : Occurrences(store, RegenUser) = HandledOnce(handlers[h])

\* the fields of a document that the poll's updates do not name
DeliveryFields == {"sent", "sentAt", "messageId", "error"}
OtherFields(doc) == [f \in DOMAIN doc \ DeliveryFields |-> doc[f]]

\* a step of the every-minute callback: its query, or one send with its update
PollStep ==
    \/ attempts' # attempts
    \/ "poll" \in cronFired' /\ "poll" \notin cronFired

\* C23: a step of a poll run never adds a document to the store and never
\* removes one; it changes at most the document it sent for, and of that only
\* the fields sent, sentAt, messageId and error; when that document was purged
\* between the run's read and its mark, nothing is written.
C23_PollOnlyMarks ==
    [][PollStep =>
          /\ DOMAIN store' = DOMAIN store
          /\ \A i \in DOMAIN store :
                /\ OtherFields(store'[i]) = OtherFields(store[i])
                /\ store'[i] # store[i] => \E a \in attempts' \ attempts : a.id = i /\ a.marked
          /\ \A a \in attempts' \ attempts : a.id \notin DOMAIN store => store' = store]_vars

\* a run has sent for a document that a purge removed after the run read it,
\* and the document is still absent; another send was marked
C23_MarkAfterPurge ==
    /\ \E a \in attempts : a.outcome # "transient" /\ ~a.marked /\ a.id \notin DOMAIN store
    /\ \E a \in attempts : a.marked

\* How the promise of sendFCMNotification settles for an attempt.  An error of
\* send() or of the update in the try block is taken by the function's catch;
\* the update in the catch block (invalid or unregistered token) has no handler
\* of its own, so when the store rejects it the function's promise rejects.
SendSettles(a) ==
    IF a.outcome = "permanent" /\ ~a.marked THEN "rejected" ELSE "fulfilled"

\* src/server/index.js: for (const doc of dueNotifications) await send...
\* inside the cron callback's try: a rejection goes to the callback's catch.
PollLoopServer(settled) == IF settled = "rejected" THEN "caughtByCronCallback" ELSE "next"

\* src/index.js: snapshot.forEach(async (doc) => { await send... }): the
\* promise of each async callback is dropped, a rejection has no handler.
PollLoopDraft(settled) == IF settled = "rejected" THEN "unhandledRejection" ELSE "next"

\* C24: a failure of a store or gateway call made by a task is caught inside
\* the task and never becomes an unhandled promise rejection: no send of a
\* poll run settles in a way that the run's loop (either draft) leaves unhandled.
C24_NoFailureEscapes ==
    \A a \in attempts :
        /\ PollLoopServer(SendSettles(a)) # "unhandledRejection"
        /\ PollLoopDraft(SendSettles(a)) # "unhandledRejection"

\* the start-up found no usable credentials
NoCredentials == process.phase # "loaded" /\ process.credentials # "valid"

\* C25: when the credentials are missing or initializeFirebase fails at
\* start-up, firebaseInitialized is and stays false, the watch loop is never
\* started, no poll tick, cleanup, purge, regeneration or send touches the
\* store or the gateway, the manual trigger answers 500 and the health
\* endpoint answers status ok with firebaseInitialized = false.
C25_DisabledWithoutCredentials ==
    [][NoCredentials =>
          /\ ~firebaseInitialized /\ ~firebaseInitialized'
          /\ process'.phase # "watching"
          /\ UNCHANGED <<store, handlers, polls, sweep, lastPoll, attempts>>
          /\ \A r \in replies' \ replies :
                /\ r.request = "trigger" => r.code = 500
                /\ r.request = "health" =>
                      r.code = 200 /\ r.status = "ok" /\ r.firebaseInitialized = FALSE]_vars

\* without credentials the timer has passed, a poll tick and the midnight
\* cleanup have come and gone, and both endpoints have answered
C25_IdleAndAnswering ==
    /\ NoCredentials
    /\ process.phase = "idle"
    /\ cronFired = {"poll", "cleanup"}
    /\ clock > StartTime
    /\ \E r \in replies : r.request = "trigger"
    /\ \E r \in replies : r.request = "health"

\* C26: for the same now, weekday 1..7, hour, minute and week 0..7 the
\* device's resolver (_getNextScheduledDate plus 7 * week days, in the
\* device's zone UTC+8) and the server's getNextScheduledDate give the same
\* instant.
C26_DeviceAndServerAgree ==
    resolved.called =>
        resolved.server = DeviceWeekDate(resolved.now, resolved.dayOfWeek, resolved.hour,
                                         resolved.minute, resolved.weekOffset)

\* weekday of the UTC date of instant t, 1 = Monday .. 7 = Sunday
UtcWeekday(t) == IF GetUTCDay(t) = 0 THEN 7 ELSE GetUTCDay(t)

\* C27: getNextScheduledDate(now, weekday, h, m, k) is the result for k = 0
\* plus 7k days, and the result for k = 0 is the earliest instant strictly
\* after now whose weekday is the requested one and whose UTC time is
\* utcHour:minute; it lies at most 7 days after now.
C27_EarliestOnWeekday ==
    resolved.called =>
        LET first == getNextScheduledDate(resolved.now, resolved.dayOfWeek, resolved.hour,
                                          resolved.minute, 0)
        IN  /\ resolved.server = first + resolved.weekOffset * 7 * Day
            /\ first > resolved.now
            /\ first - 7 * Day <= resolved.now
            /\ UtcWeekday(first) = resolved.dayOfWeek
            /\ UtcHourAt(first) = UtcHourOf(resolved.hour)
            /\ UtcMinuteAt(first) = resolved.minute

\* the ids of the owner's documents
DocumentsOf(coll, userId) == {i \in DOMAIN coll : coll[i].userId = userId}

\* C28: a regeneration run that meets no store error leaves exactly one
\* document for each pair (weekday of the resolved days, week 0..7), that is
\* 8 * |days| documents, none skipped as past, each under the id of its pair
\* and with scheduledFor in (now, now + 56 days].
C28_EveryPairWritten ==
    \A h \in DOMAIN handlers :
        handlers[h].pc = "done" /\ h = Len(handlers)
        => LET hd == handlers[h]
               days == Range(DaysToSchedule(hd.data))
               mine == DocumentsOf(store, hd.userId)
           IN  /\ mine = {NotificationId(hd.userId, d, w) : d \in days, w \in 0 .. HorizonWeeks - 1}
               /\ Cardinality(mine) = HorizonWeeks * Cardinality(days)
               /\ \A i \in mine :
                     /\ i = NotificationId(hd.userId, store[i].dayOfWeek, store[i].week)
                     /\ store[i].scheduledFor > hd.now
                     /\ store[i].scheduledFor <= hd.now + HorizonWeeks * Week

\* a run made on a Monday after the day's reminder time has written all 56
\* documents of a daily config, Monday's of week 0 a week ahead
C28_DailyRunComplete ==
    \E h \in DOMAIN handlers :
        /\ handlers[h].pc = "done"
        /\ h = Len(handlers)
        /\ UtcWeekday(handlers[h].now) = 1
        /\ Cardinality(DocumentsOf(store, handlers[h].userId)) = 7 * HorizonWeeks
        /\ store[NotificationId(handlers[h].userId, 1, 0)].scheduledFor > handlers[h].now + 6 * Day

\* C29: the occurrences generated from a config use exactly the config's hour
\* (0..23) and minute (0..59), hour 0 and minute 0 included: the documents
\* carry them and scheduledFor falls on that hour, taken from UTC+8, and minute.
C29_HourAndMinuteAsGiven ==
    \A h \in DOMAIN handlers :
        LET hd == handlers[h]
        IN  /\ hd.pc = "done"
            /\ h = Len(handlers)
            /\ HasField(hd.data, "studyReminderHour")
            /\ HasField(hd.data, "studyReminderMinute")
            => \A i \in DocumentsOf(store, hd.userId) :
                  /\ store[i].hour = hd.data.studyReminderHour
                  /\ store[i].minute = hd.data.studyReminderMinute
                  /\ UtcHourAt(store[i].scheduledFor) = UtcHourOf(hd.data.studyReminderHour)
                  /\ UtcMinuteAt(store[i].scheduledFor) = hd.data.studyReminderMinute

\* a run for a custom config that names its days
CustomRun(hd) ==
    /\ FrequencyOf(hd.data) = "custom"
    /\ Len(CustomDaysOf(hd.data)) > 0

BatchesReadDue ==
    \A p \in DOMAIN polls : \A n \in DOMAIN polls[p].batch :
        LET entry == polls[p].batch[n]
        IN  /\ entry.data.sent = FALSE
            /\ entry.data.scheduledFor >= polls[p].now
            /\ entry.data.scheduledFor <= polls[p].now + PollWindowSeconds

\* C31: a poll run that read time t sends only for documents it read unsent
\* with scheduledFor in [t, t + 60 s]; after a successful send it marks the
\* document of that id, and no other, sent with the gateway's message id.
C31_SendsOnlyDueAndMarksIt ==
    [][/\ BatchesReadDue
       /\ \A i \in DOMAIN polls' :
             polls'[i] \notin Range(polls) =>
                \A n \in DOMAIN polls'[i].batch :
                   \/ \E p \in DOMAIN polls : polls[p].now = polls'[i].now
                   \/ /\ polls'[i].batch[n].id \in DOMAIN store
                      /\ polls'[i].batch[n].data = store[polls'[i].batch[n].id]
       /\ \A a \in attempts' \ attempts :
             /\ \E p \in DOMAIN polls :
                   /\ polls[p].now = a.at
                   /\ Head(polls[p].batch).id = a.id
                   /\ Head(polls[p].batch).data.scheduledFor = a.scheduledFor
             /\ a.scheduledFor >= a.at
             /\ a.scheduledFor <= a.at + PollWindowSeconds
             /\ a.outcome = "ok" /\ a.id \in DOMAIN store
                   => /\ store'[a.id].sent
                      /\ store'[a.id].messageId = <<"msg", a.at, a.id>>
                      /\ DOMAIN store' = DOMAIN store
                      /\ \A j \in DOMAIN store : j # a.id => store'[j] = store[j]]_vars

\* a run has sent for a document due at the very end of its minute and has
\* marked it with the message id of that send; a document due a minute later
\* was in the store and is untouched
C31_SentAtWindowEnd ==
    \E a \in Pushes :
        /\ a.marked
        /\ a.scheduledFor = a.at + PollWindowSeconds
        /\ a.id \in DOMAIN store
        /\ store[a.id].sent
        /\ store[a.id].messageId = <<"msg", a.at, a.id>>
        /\ \E j \in DOMAIN store :
              /\ store[j].scheduledFor = a.at + 2 * PollWindowSeconds
              /\ store[j].sent = FALSE
              /\ store[j].createdAt < a.at

\* C32: the store a poll run leaves does not depend on the order in which the
\* entries of its batch are handled: the server's loop in any order and the
\* draft's concurrent callbacks leave the same documents, also when sends fail.
C32_BatchOrderIrrelevant ==
    [][HasField(lastPoll', "gateway") /\ lastPoll' # lastPoll =>
          \A p \in DOMAIN polls :
              polls[p].now = lastPoll'.now =>
                 /\ \A order \in Orders(polls[p].batch) :
                       ServerLoop(store, polls[p].now, order, lastPoll'.gateway) = store'
                 /\ DraftLoop(store, polls[p].now, polls[p].batch, lastPoll'.gateway) = store']_vars

\* the instants a poll run can read as now
RunNows == {c + j : c \in {3 * Week - Minute, 3 * Week, 3 * Week + Minute}, j \in 0 .. MaxJitter}

RunPending(t) == \E p \in DOMAIN polls : polls[p].now = t

\* C33: every send of a poll run ends within a bounded time and the run
\* terminates; a send that ends without a delivery and without a token error
\* (a timeout) leaves the record unsent and the run goes on to its next entry.
C33_SendsEndAndRunTerminates ==
    /\ [][\A a \in attempts' \ attempts :
             a.outcome = "transient" =>
                /\ store' = store
                /\ \E p \in DOMAIN polls : polls[p].now = a.at /\ polls' = AfterHead(p)]_vars
    /\ \A t \in RunNows : RunPending(t) ~> ~RunPending(t)

\* the same run started by the other of the two entry points
ByTheOther(hd) == [hd EXCEPT !.type = IF hd.type = "trigger" THEN "modified" ELSE "trigger"]

\* the collection a run for hd leaves when it ran alone from the collection start
LeavesAs(coll, start, hd) ==
    LET expected == RegeneratedFrom(start, hd)
    IN  /\ DOMAIN coll = DOMAIN expected
        /\ Occurrences(coll, hd.userId) = Occurrences(expected, hd.userId)
        /\ \A i \in DOMAIN coll :
              \/ /\ i \in DOMAIN start
                 /\ coll[i] = start[i]
                 /\ coll[i].userId = hd.userId => coll[i].sent
              \/ /\ coll[i].userId = hd.userId
                 /\ coll[i].sent = FALSE
                 /\ coll[i].fcmToken = hd.data.fcmToken

\* C34: for a user with a preference document the manual trigger leaves the
\* store as the watch callback of a 'modified' event carrying that document
\* leaves it (the purge, then the regeneration only when enabled with a
\* token); for a user without one it answers 404 and changes no record.
C34_TriggerAsModified ==
    [][/\ \A h \in DOMAIN handlers' :
             h = Len(handlers') /\ handlers'[h].pc = "done" /\ handlers'[h].type \in {"trigger", "modified"}
             => /\ LeavesAs(store', history'[h], ByTheOther(handlers'[h]))
                /\ handlers'[h].type = "trigger" => handlers'[h].data = prefs'[handlers'[h].userId]
       /\ replies' # replies =>
             /\ replies' \ replies = {[request |-> "trigger", code |-> 404]}
             /\ \E userId \in Users : userId \notin DOMAIN prefs
             /\ store' = store
             /\ handlers' = handlers]_vars

\* a trigger for a user without a document was answered 404, and a trigger
\* for the user with an enabled config has purged the pending documents of the
\* earlier config, kept the delivered ones and written the new ones
C34_TriggeredAndRefused ==
    /\ [request |-> "trigger", code |-> 404] \in replies
    /\ \E h \in DOMAIN handlers :
          /\ h = Len(handlers)
          /\ handlers[h].pc = "done"
          /\ handlers[h].type = "trigger"
          /\ Regenerates(handlers[h])
          /\ \E i \in DOMAIN history[h] : i \notin DOMAIN store
          /\ \E i \in DOMAIN history[h] : i \in DOMAIN store /\ store[i].sent
          /\ \E i \in DOMAIN store : i \notin DOMAIN history[h]

\* C35: sendFCMNotification sets sent = TRUE only on a document that still has
\* the content the send was made for: a document deleted and written again
\* under the same id (another scheduledFor or token) between the run's read
\* and its mark is not marked by that send.
C35_MarksWhatItSentFor ==
    [][\A a \in attempts' \ attempts :
          a.marked => /\ store[a.id].scheduledFor = a.scheduledFor
                      /\ store[a.id].fcmToken = a.token]_vars

\* C36: every instant getNextScheduledDate returns, read in the owner's zone
\* (UTC+8), falls on the requested weekday at exactly hour:minute, for every
\* hour 0..23 and every now.
C36_OwnerWeekdayAndTime ==
    resolved.called =>
        /\ DeviceWeekday(resolved.server) = resolved.dayOfWeek
        /\ (resolved.server + OwnerOffsetHours * Hour) % Day
              = resolved.hour * Hour + resolved.minute * Minute

\* C37: within a poll run a failure while handling one entry (a send error of
\* either kind, a mark that the store rejects, the document purged meanwhile)
\* does not keep the run from attempting the remaining entries of its batch:
\* when the run ends a send was made for every entry.
C37_RunGoesOnAfterFailure ==
    [][HasField(lastPoll', "gateway") /\ lastPoll' # lastPoll =>
          \A p \in DOMAIN polls :
              polls[p].now = lastPoll'.now =>
                 \A k \in DOMAIN polls[p].batch :
                     \E a \in attempts' : a.at = polls[p].now /\ a.id = polls[p].batch[k].id]_vars

\* C38: the daily cleanup run deletes no document with sent = FALSE, and it
\* changes no field of a document it does not delete.
C38_CleanupSparesPending ==
    [][sweep.pc = "commit" /\ sweep'.pc = "idle" =>
          \A i \in DOMAIN store :
              /\ store[i].sent = FALSE => i \in DOMAIN store'
              /\ i \in DOMAIN store' => store'[i] = store[i]]_vars

\* the pending local notifications with ids base + day + 100 * week
PendingOf(coll, base) ==
    {i \in DOMAIN coll : i > base /\ i < base + 100 * DeviceWeeks}

\* the ids of the given days over the weeks
LocalIdsOf(base, days) ==
    {LocalId(base, days[k], week) : k \in DOMAIN days, week \in 0 .. DeviceWeeks - 1}

\* C39: when scheduleBreakReminder completes the pending break notifications
\* (ids 2000 + day + 100 * week) are exactly those of the days of that call,
\* none being left for a weekday an earlier call asked for and this one does
\* not; scheduleStudyReminder leaves exactly those of its call under the ids
\* 1000 + day + 100 * week.
C39_BreakIdsOfThisCallOnly ==
    [][lastCall' # lastCall =>
          /\ lastCall'.method = "break" =>
                PendingOf(pending', BreakBase) = LocalIdsOf(BreakBase, lastCall'.days)
          /\ lastCall'.method = "study" =>
                PendingOf(pending', StudyBase) = LocalIdsOf(StudyBase, lastCall'.days)]_vars

====
